---- MODULE Spec2Model ----
(***************************************************************************)
(* A model of src/main.c, a C + SDL2 implementation of the Game of Life:   *)
(* main() builds a gameOfLife_t, initialises SDL, seeds the board at       *)
(* random and runs SimulationLoop(), which ticks, drains the SDL event     *)
(* queue and sleeps, forever.                                              *)
(*                                                                         *)
(* The board is scaled down to BOARD_SIDE x BOARD_SIDE cells; the random   *)
(* source and the user are the environment.  SDL_PollEvent() pumps the     *)
(* operating system's input into the SDL queue and then pops one event:    *)
(* PumpEvent is the first half (the user's side), the Poll... actions are  *)
(* the second half (the program's side).                                   *)
(***************************************************************************)
EXTENDS Integers, Sequences, FiniteSets, TLC

(***************************************************************************)
(* Bounds of the model.                                                    *)
(***************************************************************************)
\* side of the (scaled-down) board; main.c:53 has 200
BOARD_SIDE == 4
\* most cells the random seeding makes alive
MaxSeedLive == 4
\* most events waiting in the SDL queue at once
MaxQueue == 2
\* most cells alive in the seeded boards of the runs with mouse clicks
MaxClickSeedLive == 3

(***************************************************************************)
(* Program constants.                                                      *)
(***************************************************************************)
DEFAULT_DELTA_TIME == 60
Uint8Range == 256
Uint16Range == 65536
\* results of random() % 10 in InitializeSimulation: the one that makes a cell alive,
\* and the least and the greatest of the nine that leave it dead
SeedDraws == {0, 1, 9}
\* sample results of the three random() % 256 of the mouse handler, in call order
DrawSamples == {<<17, 200, 99>>, <<200, 99, 17>>}

VARIABLES
    pc,               \* where main() is: an initialisation step, a place of the loop,
                      \* "exit" after exit(), "killed" after a fatal signal
    exitCode,         \* the status passed to exit(), NoExit if exit() was not called
    seedIndex,        \* InitializeSimulation's loop counter i (uint16_t)
    deltaTime,        \* gameOfLife.deltaTime (uint8_t)
    simulationPaused, \* gameOfLife.simulationPaused
    board,            \* gameOfLife.board
    workBoard,        \* gameOfLife.workBoard
    gameColors,       \* the colour of the cells and of the grid lines
    backgroundColor,  \* the colour the screen is cleared with
    gFullscreen,      \* 0 or 1
    queue,            \* the SDL event queue, oldest event first
    screen,           \* the frame last shown by SDL_RenderPresent, NoFrame before
    last              \* history: the tick or the event handled last (see Did)

vars == <<pc, exitCode, seedIndex, deltaTime, simulationPaused, board, workBoard,
          gameColors, backgroundColor, gFullscreen, queue, screen, last>>

Cells == 0..(BOARD_SIDE - 1)
NoExit == -1
PIXEL_SIZE == 5
NoFrame == [shown |-> FALSE, calls |-> <<>>]

\* The history variable records the last seeding pass, tick, event or Abort: op
\* names it (for an event, its type; "paused" for a tick the pause skipped), code
\* is the key or button of an event, draws the results of random() the step used
\* (one for a seeding pass, three for a click), and before the number of live
\* cells on the board when the step began.
Did(op, code, draws, before) == [op |-> op, code |-> code, draws |-> draws, before |-> before]

\* a BOARD_SIDE x BOARD_SIDE array of zero bytes
ZeroBoard == [row \in Cells |-> [col \in Cells |-> 0]]

(***************************************************************************)
(* The events the program distinguishes.                                   *)
(***************************************************************************)
QuitEvent == [type |-> "SDL_QUIT", code |-> "none"]
KeyDown(sym) == [type |-> "SDL_KEYDOWN", code |-> sym]
MouseButtonDown(button) == [type |-> "SDL_MOUSEBUTTONDOWN", code |-> button]

(***************************************************************************)
(* int GetRowByIndex( int ), int GetColumnByIndex( int )                   *)
(***************************************************************************)
\* a GetRowByIndex with the body of GetColumnByIndex
GetRowByIndex_Modulo(index) == index % BOARD_SIDE

GetRowByIndex(index) == index \div BOARD_SIDE

GetColumnByIndex(index) == index % BOARD_SIDE

(***************************************************************************)
(* Initial state: main()'s initialiser of gameOfLife sets deltaTime and    *)
(* simulationPaused and zero-fills both boards; the globals have their     *)
(* static initialisers.                                                    *)
(***************************************************************************)
Init ==
    /\ pc = "SDL_Init"
    /\ exitCode = NoExit
    /\ seedIndex = 0
    /\ deltaTime = DEFAULT_DELTA_TIME
    /\ simulationPaused = FALSE
    /\ board = ZeroBoard
    /\ workBoard = ZeroBoard
    /\ gameColors = [r |-> 255, g |-> 127, b |-> 0, a |-> 255]
    /\ backgroundColor = [r |-> 0, g |-> 0, b |-> 0, a |-> 255]
    /\ gFullscreen = 0
    /\ queue = <<>>
    /\ screen = NoFrame
    /\ last = Did("main", "none", <<>>, 0)

LiveCells(b) == {rc \in Cells \X Cells : b[rc[1]][rc[2]] # 0}

Alive(b) == Cardinality(LiveCells(b))

(***************************************************************************)
(* void Abort( const char *, ... ): prints the message and calls exit(1).  *)
(* All three callers pass a "{}" template, and Abort reads its argument    *)
(* with va_arg from a va_list that va_start never initialised: undefined   *)
(* behaviour, which either prints some string and goes on to exit(1), or   *)
(* faults and has the process killed by a signal.                          *)
(***************************************************************************)
Abort ==
    /\ \/ pc' = "exit" /\ exitCode' = 1
       \/ pc' = "killed" /\ UNCHANGED exitCode
    /\ last' = Did("Abort", "none", <<>>, Alive(board))
    /\ UNCHANGED <<seedIndex, deltaTime, simulationPaused, board, workBoard,
                   gameColors, backgroundColor, gFullscreen, queue, screen>>

\* the rest of the state when only pc moves
InitStep(next) ==
    /\ pc' = next
    /\ UNCHANGED <<exitCode, seedIndex, deltaTime, simulationPaused, board, workBoard,
                   gameColors, backgroundColor, gFullscreen, queue, screen, last>>

(***************************************************************************)
(* void InitializeGraphics( void ), one action per SDL call that can fail. *)
(***************************************************************************)
InitSDL ==
    /\ pc = "SDL_Init"
    /\ InitStep("SDL_CreateWindow") \/ Abort

CreateWindow ==
    /\ pc = "SDL_CreateWindow"
    /\ InitStep("SDL_CreateRenderer") \/ Abort

\* on success the back buffer is cleared (nothing is presented) and main()
\* registers CleanUp and enters InitializeSimulation
CreateRenderer ==
    /\ pc = "SDL_CreateRenderer"
    /\ InitStep("InitializeSimulation") \/ Abort

(***************************************************************************)
(* void InitializeSimulation( struct gameOfLife_t * )                      *)
(***************************************************************************)
\* one pass of the for loop: cell (column of i, row of i) gets 1 iff the draw is 0
SeedCell ==
    /\ pc = "InitializeSimulation"
    /\ seedIndex < BOARD_SIDE * BOARD_SIDE
    /\ \E randomNumber \in SeedDraws :
          /\ randomNumber = 0 => Alive(board) < MaxSeedLive
          /\ board' = [board EXCEPT
                 ![GetColumnByIndex(seedIndex)][GetRowByIndex(seedIndex)] =
                     IF randomNumber = 0 THEN 1 ELSE 0]
          /\ last' = Did("InitializeSimulation", "none", <<randomNumber>>, Alive(board))
    /\ seedIndex' = (seedIndex + 1) % Uint16Range
    /\ UNCHANGED <<pc, exitCode, deltaTime, simulationPaused, workBoard,
                   gameColors, backgroundColor, gFullscreen, queue, screen>>

\* the loop condition fails: InitializeSimulation returns and SimulationLoop starts
SeedDone ==
    /\ pc = "InitializeSimulation"
    /\ ~(seedIndex < BOARD_SIDE * BOARD_SIDE)
    /\ InitStep("tick")

(***************************************************************************)
(* void ApplyLifeRule( struct gameOfLife_t *, int row, int col ):          *)
(* the work board after the call.                                          *)
(***************************************************************************)
\* the 3x3 block around (row, col), the cell itself included
Block(row, col) == ((row - 1)..(row + 1)) \X ((col - 1)..(col + 1))

\* ApplyLifeRule with the edge branches copying the cell instead of doing nothing
ApplyLifeRule_CopiesEdges(b, wb, row, col) ==
    IF row > 0 /\ row < BOARD_SIDE - 1 /\ col > 0 /\ col < BOARD_SIDE - 1
    THEN LET lifeForms == Cardinality({n \in Block(row, col) : b[n[1]][n[2]] # 0}) - 1
         IN  [wb EXCEPT ![row][col] = IF lifeForms < 2 \/ lifeForms > 3 THEN 0 ELSE 1]
    ELSE [wb EXCEPT ![row][col] = b[row][col]]

\* ApplyLifeRule with && for || in the test of rules 1 and 3
ApplyLifeRule_AndForOr(b, wb, row, col) ==
    IF row > 0 /\ row < BOARD_SIDE - 1 /\ col > 0 /\ col < BOARD_SIDE - 1
    THEN LET lifeForms == Cardinality({n \in Block(row, col) : b[n[1]][n[2]] # 0}) - 1
         IN  [wb EXCEPT ![row][col] = IF lifeForms < 2 /\ lifeForms > 3 THEN 0 ELSE 1]
    ELSE wb

ApplyLifeRule(b, wb, row, col) ==
    IF row > 0 /\ row < BOARD_SIDE - 1
    THEN IF col > 0 /\ col < BOARD_SIDE - 1
         THEN LET counted == Cardinality({n \in Block(row, col) : b[n[1]][n[2]] # 0})
                  lifeForms == counted - 1
              IN  IF lifeForms < 2 \/ lifeForms > 3
                  THEN [wb EXCEPT ![row][col] = 0]
                  ELSE [wb EXCEPT ![row][col] = 1]
         ELSE wb
    ELSE wb

(***************************************************************************)
(* void UpdateBoard( struct gameOfLife_t * )                               *)
(***************************************************************************)
\* a loop that copies each cell into the board as soon as the rule has written it
RECURSIVE WorkOnBoard_InPlace(_, _, _)
WorkOnBoard_InPlace(b, wb, i) ==
    IF i < BOARD_SIDE * BOARD_SIDE
    THEN LET row == GetRowByIndex(i)
             col == GetColumnByIndex(i)
             written == ApplyLifeRule(b, wb, row, col)
         IN  WorkOnBoard_InPlace([b EXCEPT ![row][col] = written[row][col]], written, i + 1)
    ELSE wb

\* the for loop over i = BOARD_SIDE .. BOARD_SIDE * BOARD_SIDE - 1
RECURSIVE WorkOnBoard(_, _, _)
WorkOnBoard(b, wb, i) ==
    IF i < BOARD_SIDE * BOARD_SIDE
    THEN WorkOnBoard(b, ApplyLifeRule(b, wb, GetRowByIndex(i), GetColumnByIndex(i)), i + 1)
    ELSE wb

\* one call on gRenderer with its integer arguments
Call(name, args) == [call |-> name, args |-> args]

SetRenderDrawColor(color) ==
    Call("SDL_SetRenderDrawColor", <<color.r, color.g, color.b, color.a>>)

\* the while loop over lineX = 0, PIXEL_SIZE, .. : a horizontal and a vertical line each
GridLines ==
    [k \in 1..(2 * BOARD_SIDE) |->
        LET lineX == ((k - 1) \div 2) * PIXEL_SIZE
        IN  IF k % 2 = 1
            THEN Call("SDL_RenderDrawLine", <<0, lineX, PIXEL_SIZE * BOARD_SIDE, lineX>>)
            ELSE Call("SDL_RenderDrawLine", <<lineX, 0, lineX, PIXEL_SIZE * BOARD_SIDE>>)]

\* the for loop that draws the life cells of b, in the order of i
FillRects(b) ==
    LET indexes == SelectSeq([k \in 1..(BOARD_SIDE * BOARD_SIDE) |-> k - 1],
                             LAMBDA i : b[GetRowByIndex(i)][GetColumnByIndex(i)] = 1)
    IN  [k \in 1..Len(indexes) |->
            Call("SDL_RenderFillRect",
                 <<GetRowByIndex(indexes[k]) * PIXEL_SIZE,
                   GetColumnByIndex(indexes[k]) * PIXEL_SIZE, PIXEL_SIZE, PIXEL_SIZE>>)]

\* a Frame that presents before it draws the life cells
Frame_PresentsBeforeCells(background, colors, b) ==
    [shown |-> TRUE,
     calls |-> <<SetRenderDrawColor(background), Call("SDL_RenderClear", <<>>),
                 SetRenderDrawColor(colors)>>
               \o GridLines
               \o <<Call("SDL_RenderPresent", <<>>)>>
               \o FillRects(b)]

\* the calls UpdateBoard makes on gRenderer, in order, when b is the board after the memcpy
Frame(background, colors, b) ==
    [shown |-> TRUE,
     calls |-> <<SetRenderDrawColor(background), Call("SDL_RenderClear", <<>>),
                 SetRenderDrawColor(colors)>>
               \o GridLines
               \o FillRects(b)
               \o <<Call("SDL_RenderPresent", <<>>)>>]

\* an UpdateBoard whose copy leaves the first and last rows and columns of board alone
UpdateBoard_KeepsEdges ==
    LET worked == WorkOnBoard(board, workBoard, BOARD_SIDE)
        copied == [row \in Cells |-> [col \in Cells |->
                      IF row \in 1..(BOARD_SIDE - 2) /\ col \in 1..(BOARD_SIDE - 2)
                      THEN worked[row][col]
                      ELSE board[row][col]]]
    IN  /\ workBoard' = worked
        /\ board' = copied
        /\ screen' = Frame(backgroundColor', gameColors', copied)

\* an UpdateBoard that draws the life cells before the rule and the copy
UpdateBoard_DrawsBeforeCommit ==
    LET worked == WorkOnBoard(board, workBoard, BOARD_SIDE)
    IN  /\ workBoard' = worked
        /\ board' = worked
        /\ screen' = Frame(backgroundColor', gameColors', board)

\* the whole call: rule into workBoard, memcpy into board, present
UpdateBoard ==
    LET worked == WorkOnBoard(board, workBoard, BOARD_SIDE)
    IN  /\ workBoard' = worked
        /\ board' = worked
        /\ screen' = Frame(backgroundColor', gameColors', worked)

(***************************************************************************)
(* void SimulationLoop( struct gameOfLife_t * )                            *)
(***************************************************************************)
\* Tick with the pause test left out
Tick_IgnoresPause ==
    /\ pc = "tick"
    /\ UNCHANGED <<gameColors, backgroundColor>>
    /\ UpdateBoard
    /\ last' = Did(IF simulationPaused THEN "paused" ELSE "UpdateBoard", "none", <<>>,
                   Alive(board))
    /\ pc' = "poll"
    /\ UNCHANGED <<exitCode, seedIndex, deltaTime, simulationPaused, gFullscreen, queue>>

\* top of the for (;;) body
Tick ==
    /\ pc = "tick"
    /\ UNCHANGED <<gameColors, backgroundColor>>
    /\ IF ~simulationPaused
       THEN UpdateBoard /\ last' = Did("UpdateBoard", "none", <<>>, Alive(board))
       ELSE UNCHANGED <<board, workBoard, screen>>
            /\ last' = Did("paused", "none", <<>>, Alive(board))
    /\ pc' = "poll"
    /\ UNCHANGED <<exitCode, seedIndex, deltaTime, simulationPaused, gFullscreen, queue>>

\* SDL_PollEvent's pump: the user's next input enters the queue
PumpEvent(event) ==
    /\ pc = "poll"
    /\ Len(queue) < MaxQueue
    /\ queue' = Append(queue, event)
    /\ UNCHANGED <<pc, exitCode, seedIndex, deltaTime, simulationPaused, board, workBoard,
                   gameColors, backgroundColor, gFullscreen, screen, last>>

\* SDL_PollEvent returned an event of the given type
Polled(type) ==
    /\ pc = "poll"
    /\ queue # <<>>
    /\ Head(queue).type = type
    /\ queue' = Tail(queue)

\* exit( 0 ) replaced by a break out of the switch
Exit0_Breaks ==
    UNCHANGED <<pc, exitCode, seedIndex, deltaTime, simulationPaused, board, workBoard,
                gameColors, backgroundColor, gFullscreen, screen>>

\* exit( 0 )
Exit0 ==
    /\ pc' = "exit"
    /\ exitCode' = 0
    /\ UNCHANGED <<seedIndex, deltaTime, simulationPaused, board, workBoard,
                   gameColors, backgroundColor, gFullscreen, screen>>

\* case SDL_QUIT
PollQuit ==
    /\ Polled("SDL_QUIT")
    /\ last' = Did("SDL_QUIT", "none", <<>>, Alive(board))
    /\ Exit0

(***************************************************************************)
(* void EvaluateKey( SDL_Event *, struct gameOfLife_t * )                  *)
(***************************************************************************)
\* case SDLK_p with the flag set instead of flipped
Toggled_SetsTrue(paused) == TRUE

\* the value of ( simulationPaused ) ? SDL_FALSE : SDL_TRUE
Toggled(paused) == IF paused THEN FALSE ELSE TRUE

\* deltaTime-- with a floor of 1
Decreased_Clamped(delta) == IF delta > 1 THEN delta - 1 ELSE delta

\* the value deltaTime-- and deltaTime++ leave in the uint8_t
Decreased(delta) == (delta - 1) % Uint8Range

Increased(delta) == (delta + 1) % Uint8Range

\* an EvaluateKey whose case SDLK_p lacks its break and falls into case SDLK_MINUS
EvaluateKey_PauseFallsThrough(sym) ==
    CASE sym \in {"SDLK_ESCAPE", "SDLK_q"} -> Exit0
      [] sym = "SDLK_p" ->
            /\ simulationPaused' = Toggled(simulationPaused)
            /\ deltaTime' = Decreased(deltaTime)
            /\ UNCHANGED <<pc, exitCode, seedIndex, board, workBoard,
                           gameColors, backgroundColor, gFullscreen, screen>>
      [] sym = "SDLK_MINUS" ->
            /\ deltaTime' = Decreased(deltaTime)
            /\ UNCHANGED <<pc, exitCode, seedIndex, simulationPaused, board, workBoard,
                           gameColors, backgroundColor, gFullscreen, screen>>
      [] sym = "SDLK_PLUS" ->
            /\ deltaTime' = Increased(deltaTime)
            /\ UNCHANGED <<pc, exitCode, seedIndex, simulationPaused, board, workBoard,
                           gameColors, backgroundColor, gFullscreen, screen>>
      [] sym = "SDLK_F11" ->
            /\ gFullscreen' = IF gFullscreen # 0 THEN 0 ELSE 1
            /\ UNCHANGED <<pc, exitCode, seedIndex, deltaTime, simulationPaused, board,
                           workBoard, gameColors, backgroundColor, screen>>
      [] OTHER ->
            UNCHANGED <<pc, exitCode, seedIndex, deltaTime, simulationPaused, board,
                        workBoard, gameColors, backgroundColor, gFullscreen, screen>>

EvaluateKey(sym) ==
    CASE sym \in {"SDLK_ESCAPE", "SDLK_q"} -> Exit0
      [] sym = "SDLK_p" ->
            /\ simulationPaused' = Toggled(simulationPaused)
            /\ UNCHANGED <<pc, exitCode, seedIndex, deltaTime, board, workBoard,
                           gameColors, backgroundColor, gFullscreen, screen>>
      [] sym = "SDLK_MINUS" ->
            /\ deltaTime' = Decreased(deltaTime)
            /\ UNCHANGED <<pc, exitCode, seedIndex, simulationPaused, board, workBoard,
                           gameColors, backgroundColor, gFullscreen, screen>>
      [] sym = "SDLK_PLUS" ->
            /\ deltaTime' = Increased(deltaTime)
            /\ UNCHANGED <<pc, exitCode, seedIndex, simulationPaused, board, workBoard,
                           gameColors, backgroundColor, gFullscreen, screen>>
      [] sym = "SDLK_F11" ->
            /\ gFullscreen' = IF gFullscreen # 0 THEN 0 ELSE 1
            /\ UNCHANGED <<pc, exitCode, seedIndex, deltaTime, simulationPaused, board,
                           workBoard, gameColors, backgroundColor, screen>>
      [] OTHER ->
            UNCHANGED <<pc, exitCode, seedIndex, deltaTime, simulationPaused, board,
                        workBoard, gameColors, backgroundColor, gFullscreen, screen>>

\* case SDL_KEYDOWN
PollKeyDown ==
    /\ Polled("SDL_KEYDOWN")
    /\ last' = Did("SDL_KEYDOWN", Head(queue).code, <<>>, Alive(board))
    /\ EvaluateKey(Head(queue).code)

\* PollMouseButtonDown with the second draw stored in b and the third in g
PollMouseButtonDown_SwapsGB ==
    /\ Polled("SDL_MOUSEBUTTONDOWN")
    /\ \E draws \in DrawSamples :
          /\ last' = Did("SDL_MOUSEBUTTONDOWN", Head(queue).code, draws, Alive(board))
          /\ IF Head(queue).code = "SDL_BUTTON_LEFT"
             THEN /\ gameColors' =
                        [gameColors EXCEPT !.r = draws[1], !.b = draws[2], !.g = draws[3]]
                  /\ UNCHANGED backgroundColor
             ELSE /\ backgroundColor' =
                        [backgroundColor EXCEPT !.r = draws[1], !.b = draws[2], !.g = draws[3]]
                  /\ UNCHANGED gameColors
    /\ UpdateBoard
    /\ UNCHANGED <<pc, exitCode, seedIndex, deltaTime, simulationPaused, gFullscreen>>

\* case SDL_MOUSEBUTTONDOWN: three draws into the colour picked by the button, then UpdateBoard
PollMouseButtonDown ==
    /\ Polled("SDL_MOUSEBUTTONDOWN")
    /\ \E draws \in DrawSamples :
          /\ last' = Did("SDL_MOUSEBUTTONDOWN", Head(queue).code, draws, Alive(board))
          /\ IF Head(queue).code = "SDL_BUTTON_LEFT"
             THEN /\ gameColors' =
                        [gameColors EXCEPT !.r = draws[1], !.g = draws[2], !.b = draws[3]]
                  /\ UNCHANGED backgroundColor
             ELSE /\ backgroundColor' =
                        [backgroundColor EXCEPT !.r = draws[1], !.g = draws[2], !.b = draws[3]]
                  /\ UNCHANGED gameColors
    /\ UpdateBoard
    /\ UNCHANGED <<pc, exitCode, seedIndex, deltaTime, simulationPaused, gFullscreen>>

\* a loop that goes on to the delay whatever is in the queue
PollNone_LeavesEvents ==
    /\ pc = "poll"
    /\ pc' = "delay"
    /\ UNCHANGED <<exitCode, seedIndex, deltaTime, simulationPaused, board, workBoard,
                   gameColors, backgroundColor, gFullscreen, queue, screen, last>>

\* SDL_PollEvent returned 0: the while loop ends
PollNone ==
    /\ pc = "poll"
    /\ queue = <<>>
    /\ pc' = "delay"
    /\ UNCHANGED <<exitCode, seedIndex, deltaTime, simulationPaused, board, workBoard,
                   gameColors, backgroundColor, gFullscreen, queue, screen, last>>

\* Delay dividing by deltaTime - 1
Delay_DivisorOffByOne ==
    /\ pc = "delay"
    /\ IF deltaTime = 1
       THEN pc' \in {"killed", "tick"}
       ELSE pc' = "tick"
    /\ UNCHANGED exitCode
    /\ UNCHANGED <<seedIndex, deltaTime, simulationPaused, board, workBoard,
                   gameColors, backgroundColor, gFullscreen, queue, screen, last>>

\* SDL_Delay( 1000 / gameOfLife->deltaTime ): an integer division by zero is
\* undefined; it traps (the process is killed by SIGFPE) or yields some quotient
Delay ==
    /\ pc = "delay"
    /\ IF deltaTime = 0
       THEN pc' \in {"killed", "tick"}
       ELSE pc' = "tick"
    /\ UNCHANGED exitCode
    /\ UNCHANGED <<seedIndex, deltaTime, simulationPaused, board, workBoard,
                   gameColors, backgroundColor, gFullscreen, queue, screen, last>>

(***************************************************************************)
(* The user.                                                               *)
(***************************************************************************)
QuitKeys == {"SDLK_ESCAPE", "SDLK_q"}
SpeedKeys == {"SDLK_MINUS", "SDLK_PLUS"}
\* SDLK_a stands for every key EvaluateKey has no case for
OtherKeys == {"SDLK_p", "SDLK_F11", "SDLK_a"}
Buttons == {"SDL_BUTTON_LEFT", "SDL_BUTTON_MIDDLE", "SDL_BUTTON_RIGHT"}

\* a session of watching, pausing and quitting
WatchEvents == {QuitEvent} \cup {KeyDown(k) : k \in QuitKeys \cup OtherKeys}

\* a session of clicking, running or paused
MouseEvents == {MouseButtonDown(b) : b \in Buttons} \cup {KeyDown("SDLK_p")}

\* a session of changing the speed, running or paused
SpeedEvents == {KeyDown(k) : k \in SpeedKeys \cup {"SDLK_p"}}

(***************************************************************************)
(* The whole program, from main()'s first statement, with a user who       *)
(* watches, pauses, toggles the full screen and quits.                     *)
(***************************************************************************)
Next ==
    \/ InitSDL
    \/ CreateWindow
    \/ CreateRenderer
    \/ SeedCell
    \/ SeedDone
    \/ Tick
    \/ \E event \in WatchEvents : PumpEvent(event)
    \/ PollQuit
    \/ PollKeyDown
    \/ PollNone
    \/ Delay

Spec == Init /\ [][Next]_vars

(***************************************************************************)
(* SimulationLoop from its entry, after an initialisation that succeeded   *)
(* and a seeding that made at most maxLive cells alive.                    *)
(***************************************************************************)
\* the sets of at most maxLive cells
RECURSIVE CellSets(_)
CellSets(maxLive) ==
    IF maxLive = 0
    THEN {{}}
    ELSE LET fewer == CellSets(maxLive - 1)
         IN  fewer \cup {live \cup {rc} : live \in fewer, rc \in Cells \X Cells}

SeededBoards(maxLive) ==
    {[row \in Cells |-> [col \in Cells |-> IF <<row, col>> \in live THEN 1 ELSE 0]] :
        live \in CellSets(maxLive)}

InitLoop(seeded) ==
    /\ pc = "tick"
    /\ exitCode = NoExit
    /\ seedIndex = BOARD_SIDE * BOARD_SIDE
    /\ deltaTime = DEFAULT_DELTA_TIME
    /\ simulationPaused = FALSE
    /\ board \in seeded
    /\ workBoard = ZeroBoard
    /\ gameColors = [r |-> 255, g |-> 127, b |-> 0, a |-> 255]
    /\ backgroundColor = [r |-> 0, g |-> 0, b |-> 0, a |-> 255]
    /\ gFullscreen = 0
    /\ queue = <<>>
    /\ screen = NoFrame
    /\ \E randomNumber \in SeedDraws :
          /\ randomNumber = 0 <=> board[BOARD_SIDE - 1][BOARD_SIDE - 1] = 1
          /\ last = Did("InitializeSimulation", "none", <<randomNumber>>,
                        Alive(board) - board[BOARD_SIDE - 1][BOARD_SIDE - 1])

\* the loop with a user who clicks and pauses
InitMouse == InitLoop(SeededBoards(MaxClickSeedLive))

NextMouse ==
    \/ Tick
    \/ \E event \in MouseEvents : PumpEvent(event)
    \/ PollKeyDown
    \/ PollMouseButtonDown
    \/ PollNone
    \/ Delay

SpecMouse == InitMouse /\ [][NextMouse]_vars

\* the loop with a user who changes the speed and pauses
InitSpeed == InitLoop(SeededBoards(1))

NextSpeed ==
    \/ Tick
    \/ \E event \in SpeedEvents : PumpEvent(event)
    \/ PollKeyDown
    \/ PollNone
    \/ Delay

SpecSpeed == InitSpeed /\ [][NextSpeed]_vars

\* the loop with a user who presses every key the program distinguishes
KeyEvents == {KeyDown(k) : k \in QuitKeys \cup SpeedKeys \cup OtherKeys}

InitKeys == InitLoop(SeededBoards(1))

NextKeys ==
    \/ Tick
    \/ \E event \in KeyEvents : PumpEvent(event)
    \/ PollKeyDown
    \/ PollNone
    \/ Delay

SpecKeys == InitKeys /\ [][NextKeys]_vars

(***************************************************************************)
(* Vocabulary of the properties.                                           *)
(***************************************************************************)
Interior == 1..(BOARD_SIDE - 2)
InteriorCells == Interior \X Interior
BoundaryCells == (Cells \X Cells) \ InteriorCells

\* the live cells among the 8 cells around (row, col)
LiveNeighbours(b, row, col) ==
    Cardinality({n \in Block(row, col) \ {<<row, col>>} : b[n[1]][n[2]] # 0})

\* this step is SDL_PollEvent handing the given event to the switch
Handled(event) ==
    /\ pc = "poll"
    /\ queue # <<>>
    /\ Head(queue) = event
    /\ queue' = Tail(queue)

\* this step is a mouse-button-down event being handled
Clicked == \E button \in Buttons : Handled(MouseButtonDown(button))

\* this step is the regular tick of a loop iteration, taken while running
RunningTick == pc = "tick" /\ ~simulationPaused /\ pc' = "poll"

\* this step is a generation step: a call of UpdateBoard
GenerationStep == RunningTick \/ Clicked

(***************************************************************************)
(* C1: after a generation step every interior cell is alive iff exactly 2  *)
(* or 3 of its 8 neighbours were alive in the board before the step,       *)
(* whether the cell itself was alive or dead.                              *)
(***************************************************************************)
C1_AliveIffTwoOrThreeNeighbours ==
    [][GenerationStep =>
         \A rc \in InteriorCells :
            board'[rc[1]][rc[2]] =
                IF LiveNeighbours(board, rc[1], rc[2]) \in {2, 3} THEN 1 ELSE 0]_vars

(***************************************************************************)
(* C2: while the controller is paused, a loop iteration without events     *)
(* (the tick, the empty poll, the delay) leaves every cell of board and    *)
(* workBoard unchanged.                                                    *)
(***************************************************************************)
C2_PausedTickIsNoOp ==
    [][(simulationPaused /\ queue' = queue) => UNCHANGED <<board, workBoard>>]_vars

\* a tick was skipped because of the pause, on a board with live cells
C2_Witness ==
    /\ pc = "poll"
    /\ last.op = "paused"
    /\ simulationPaused
    /\ LiveCells(board) # {}

(***************************************************************************)
(* C3: handling a mouse-button-down event does not advance the generation: *)
(* it leaves every cell of board and workBoard unchanged, running or       *)
(* paused.                                                                 *)
(***************************************************************************)
C3_ClickKeepsGeneration ==
    [][Clicked => UNCHANGED <<board, workBoard>>]_vars

Drawn(draws) == [r |-> draws[1], g |-> draws[2], b |-> draws[3], a |-> 255]

\* what a step does to the two colours if it handles a left or a right click
ClickEffect ==
    /\ Handled(MouseButtonDown("SDL_BUTTON_LEFT")) =>
          (gameColors' = Drawn(last'.draws) /\ backgroundColor' = backgroundColor)
    /\ Handled(MouseButtonDown("SDL_BUTTON_RIGHT")) =>
          (backgroundColor' = Drawn(last'.draws) /\ gameColors' = gameColors)

(***************************************************************************)
(* C4: a left click sets r, g, b of gameColors to the three values drawn,  *)
(* in that order, and leaves backgroundColor alone; a right click does the *)
(* same to backgroundColor and leaves gameColors alone; the alpha of both  *)
(* colours is 255 throughout.                                              *)
(***************************************************************************)
C4_ClickSetsDrawnTriple ==
    /\ [](gameColors.a = 255 /\ backgroundColor.a = 255)
    /\ [][ClickEffect]_vars

\* a right click has just set the background, after a left click set the cells' colour
C4_Witness ==
    /\ last.op = "SDL_MOUSEBUTTONDOWN"
    /\ last.code = "SDL_BUTTON_RIGHT"
    /\ last.draws = <<200, 99, 17>>
    /\ backgroundColor = [r |-> 200, g |-> 99, b |-> 17, a |-> 255]
    /\ gameColors = [r |-> 17, g |-> 200, b |-> 99, a |-> 255]

(***************************************************************************)
(* C5: a generation step never writes a boundary cell of workBoard: every  *)
(* boundary cell holds after the step what it held before, so the boundary *)
(* of workBoard keeps its start-up contents (zero) for ever.               *)
(***************************************************************************)
C5_StepKeepsNextBoundary ==
    /\ [](\A rc \in BoundaryCells : workBoard[rc[1]][rc[2]] = ZeroBoard[rc[1]][rc[2]])
    /\ [][GenerationStep =>
             \A rc \in BoundaryCells : workBoard'[rc[1]][rc[2]] = workBoard[rc[1]][rc[2]]]_vars

\* a generation step has just written live cells into workBoard
C5_Witness ==
    /\ last.op = "UpdateBoard"
    /\ LiveCells(workBoard) # {}
    /\ \A rc \in BoundaryCells : workBoard[rc[1]][rc[2]] = 0

(***************************************************************************)
(* C6: once every cell of board is dead, no step of the simulation loop    *)
(* makes a cell of board alive again.                                      *)
(***************************************************************************)
C6_DeadBoardStaysDead ==
    [][(pc \in {"tick", "poll", "delay"} /\ Alive(board) = 0) => Alive(board') = 0]_vars

\* a generation step has just run on a board without live cells
C6_Witness ==
    /\ last.op = "UpdateBoard"
    /\ last.before = 0
    /\ screen.shown
    /\ Alive(board) = 0

\* the cell's value after a generation: 1 iff the live cells of its 3x3 block,
\* less one, number 2 or 3
RuleOfCode(b, row, col) ==
    LET self == IF b[row][col] # 0 THEN 1 ELSE 0
    IN  IF self + LiveNeighbours(b, row, col) - 1 \in {2, 3} THEN 1 ELSE 0

NextGeneration(b, wb) ==
    [row \in Cells |-> [col \in Cells |->
        IF <<row, col>> \in InteriorCells THEN RuleOfCode(b, row, col) ELSE wb[row][col]]]

PauseKeyEffect ==
    Handled(KeyDown("SDLK_p")) =>
        /\ simulationPaused' = ~simulationPaused
        /\ UNCHANGED <<pc, exitCode, seedIndex, deltaTime, board, workBoard,
                       gameColors, backgroundColor, gFullscreen, screen>>

RunningTickEffect ==
    RunningTick => (board' = NextGeneration(board, workBoard) /\ workBoard' = board')

(***************************************************************************)
(* C7: the controller starts RUNNING; a 'p' key event flips                *)
(* simulationPaused and changes nothing else (so two of them restore       *)
(* RUNNING); and the tick of an iteration that starts RUNNING performs a   *)
(* generation step.                                                        *)
(***************************************************************************)
C7_PauseTogglesAndResumes ==
    /\ [](last.op \in {"main", "InitializeSimulation"} => ~simulationPaused)
    /\ [][PauseKeyEffect]_vars
    /\ [][RunningTickEffect]_vars

\* the last event of the iteration before was the 'p' that resumed the simulation,
\* and the tick of the next iteration is due
C7_Witness ==
    /\ pc = "tick"
    /\ last.op = "SDL_KEYDOWN"
    /\ last.code = "SDLK_p"
    /\ ~simulationPaused
    /\ LiveCells(board) # {}

SpeedKeyEffect ==
    /\ Handled(KeyDown("SDLK_PLUS")) =>
          deltaTime' = (IF deltaTime = 255 THEN 0 ELSE deltaTime + 1)
    /\ Handled(KeyDown("SDLK_MINUS")) =>
          deltaTime' = (IF deltaTime = 0 THEN 255 ELSE deltaTime - 1)

(***************************************************************************)
(* C8: deltaTime is an unsigned 8-bit integer that starts at 60; '+' makes *)
(* it (deltaTime + 1) mod 256 and '-' makes it (deltaTime - 1) mod 256,    *)
(* without clamping: 1 -> 0 and 0 -> 255 on '-', 255 -> 0 on '+'.          *)
(***************************************************************************)
C8_SpeedWrapsAround ==
    /\ [](deltaTime \in 0..255 /\ (last.op \in {"main", "InitializeSimulation"} => deltaTime = 60))
    /\ [][SpeedKeyEffect]_vars

\* a '-' has just taken deltaTime from 0 to 255
C8_Witness ==
    /\ last.op = "SDL_KEYDOWN"
    /\ last.code = "SDLK_MINUS"
    /\ deltaTime = 255

(***************************************************************************)
(* C9: 1000 / deltaTime is evaluated only after the queue has been         *)
(* drained, and the division by zero happens exactly there with deltaTime  *)
(* = 0, which is reachable; a deltaTime that is 0 only while events are    *)
(* being handled divides nothing.                                          *)
(***************************************************************************)
C9_DelayDividesAfterDrain ==
    /\ [](pc = "delay" => queue = <<>>)
    /\ [][pc' = "killed" => (pc = "delay" /\ deltaTime = 0 /\ deltaTime' = 0)]_vars

\* the division by zero has trapped
C9_Witness ==
    /\ pc = "killed"
    /\ deltaTime = 0
    /\ queue = <<>>

QuitEffect ==
    (\/ Handled(QuitEvent)
     \/ Handled(KeyDown("SDLK_ESCAPE"))
     \/ Handled(KeyDown("SDLK_q")))
    => /\ pc' = "exit"
       /\ exitCode' = 0
       /\ UNCHANGED <<deltaTime, simulationPaused, board, workBoard,
                      gameColors, backgroundColor, gFullscreen, screen>>

(***************************************************************************)
(* C10: a quit event, or a key-down of escape or 'q', ends the process     *)
(* with exit code 0 at once, running or paused: the events still in the    *)
(* queue are never handled and no tick, render pass or delay follows.      *)
(***************************************************************************)
C10_QuitEndsAtOnce ==
    /\ [][QuitEffect]_vars
    /\ [][pc # "exit"]_vars

\* the process has exited with code 0 while paused, leaving an event in the queue
C10_Witness ==
    /\ pc = "exit"
    /\ exitCode = 0
    /\ simulationPaused
    /\ queue # <<>>

\* a step in which one of the three initialisation calls of InitializeGraphics fails
InitFailure ==
    /\ pc \in {"SDL_Init", "SDL_CreateWindow", "SDL_CreateRenderer"}
    /\ last'.op = "Abort"

(***************************************************************************)
(* C11: when SDL_Init, SDL_CreateWindow or SDL_CreateRenderer fails, the   *)
(* process ends with exit code 1 at that step: no later initialisation     *)
(* step is tried, the board is never seeded, nothing is presented and no   *)
(* step follows; and exit code 1 comes from no other path.                 *)
(***************************************************************************)
C11_InitFailureExitsWithOne ==
    /\ [][InitFailure => (/\ pc' = "exit"
                          /\ exitCode' = 1
                          /\ seedIndex' = 0
                          /\ board' = ZeroBoard
                          /\ screen' = NoFrame)]_vars
    /\ [][last.op # "Abort"]_vars
    /\ [](exitCode = 1 => last.op = "Abort")

\* the arguments SDL_SetRenderDrawColor gets for a colour
Components(color) == <<color.r, color.g, color.b, color.a>>

\* calls is one redraw of board b with the palette (background, colors): the
\* clear in the background colour, then the grid lines in the cells' colour,
\* then one square per live cell of b and no other, then the present
IsRedrawOf(calls, background, colors, b) ==
    LET n == Len(calls)
        firstRect == 4 + 2 * BOARD_SIDE
        rects == firstRect..(n - 1)
    IN  /\ n = firstRect + Alive(b)
        /\ calls[1].call = "SDL_SetRenderDrawColor"
        /\ calls[1].args = Components(background)
        /\ calls[2].call = "SDL_RenderClear"
        /\ calls[3].call = "SDL_SetRenderDrawColor"
        /\ calls[3].args = Components(colors)
        /\ \A i \in 4..(firstRect - 1) : calls[i].call = "SDL_RenderDrawLine"
        /\ \A i \in rects :
              /\ calls[i].call = "SDL_RenderFillRect"
              /\ calls[i].args[3] = PIXEL_SIZE
              /\ calls[i].args[4] = PIXEL_SIZE
        /\ {<<calls[i].args[1] \div PIXEL_SIZE, calls[i].args[2] \div PIXEL_SIZE>> :
               i \in rects} = LiveCells(b)
        /\ \A i \in rects : calls[i].args[1] % PIXEL_SIZE = 0 /\ calls[i].args[2] % PIXEL_SIZE = 0
        /\ calls[n].call = "SDL_RenderPresent"

(***************************************************************************)
(* C12: every redraw makes its calls in the order clear in the background  *)
(* colour, grid lines in the cells' colour, one filled square per live     *)
(* cell, present; the squares are exactly the cells alive in board when    *)
(* the frame is presented, and the colours are those in effect when the    *)
(* redraw began (after the click that caused it changed one, if it did).   *)
(* Board and palette change in no other step, so the frame on the screen   *)
(* always is a redraw of the present board in the present palette.         *)
(***************************************************************************)
C12_RedrawOrderAndContent ==
    /\ [][GenerationStep =>
             (/\ screen'.shown
              /\ IsRedrawOf(screen'.calls, backgroundColor', gameColors', board'))]_vars
    /\ [](screen.shown => IsRedrawOf(screen.calls, backgroundColor, gameColors, board))

\* a click has changed the background and the frame shows two or more live cells
C12_Witness ==
    /\ last.op = "SDL_MOUSEBUTTONDOWN"
    /\ last.code = "SDL_BUTTON_RIGHT"
    /\ screen.shown
    /\ screen.calls[1].args = <<last.draws[1], last.draws[2], last.draws[3], 255>>
    /\ Alive(board) >= 2
    /\ Len(screen.calls) = 4 + 2 * BOARD_SIDE + Alive(board)

\* this step is one pass of the seeding loop
SeedPass == pc = "InitializeSimulation" /\ seedIndex' # seedIndex

\* the cell the claim gives to pass index of the seeding loop
SeedTarget(index) == <<index % BOARD_SIDE, index \div BOARD_SIDE>>

\* what a step does if it is a pass of the seeding loop, or leaves the loop
SeedEffect ==
    /\ SeedPass =>
          (/\ seedIndex < BOARD_SIDE * BOARD_SIDE
           /\ seedIndex' = seedIndex + 1
           /\ last'.op = "InitializeSimulation"
           /\ last'.draws[1] \in 0..9
           /\ board' = [board EXCEPT
                  ![SeedTarget(seedIndex)[1]][SeedTarget(seedIndex)[2]] =
                      IF last'.draws[1] = 0 THEN 1 ELSE 0])
    /\ (pc = "InitializeSimulation" /\ pc' # pc) =>
          (seedIndex = BOARD_SIDE * BOARD_SIDE /\ pc' = "tick")
    /\ pc # "InitializeSimulation" => seedIndex' = seedIndex

(***************************************************************************)
(* C13: the seeding loop assigns every cell of board exactly once, each    *)
(* from its own draw in 0..9, alive iff the draw is 0, and terminates:     *)
(* pass i writes cell (i mod BOARD_SIDE, i div BOARD_SIDE) and no other,   *)
(* the passes are i = 0, 1, .. , BOARD_SIDE * BOARD_SIDE - 1 in turn, the  *)
(* cells of the passes still to come hold their initial 0, the cells of    *)
(* different passes differ and together they are the whole board, and the  *)
(* loop can always take its next pass or, after the last one, return.      *)
(***************************************************************************)
C13_SeedingAssignsEachCellOnce ==
    /\ [][SeedEffect]_vars
    /\ [](seedIndex \in 0..(BOARD_SIDE * BOARD_SIDE))
    /\ [](pc = "InitializeSimulation" =>
            /\ \A i \in seedIndex..(BOARD_SIDE * BOARD_SIDE - 1) :
                  board[SeedTarget(i)[1]][SeedTarget(i)[2]] = 0
            /\ Cardinality({SeedTarget(i) : i \in 0..(seedIndex - 1)}) = seedIndex
            /\ ENABLED (SeedCell \/ SeedDone))
    /\ [](seedIndex = BOARD_SIDE * BOARD_SIDE =>
            {SeedTarget(i) : i \in 0..(seedIndex - 1)} = Cells \X Cells)

\* the loop has returned; pass BOARD_SIDE - 1 drew a 0 for cell (BOARD_SIDE - 1, 0),
\* pass BOARD_SIDE * (BOARD_SIDE - 1) another value for cell (0, BOARD_SIDE - 1),
\* and the last pass drew a 9
C13_Witness ==
    /\ pc = "tick"
    /\ ~screen.shown
    /\ seedIndex = BOARD_SIDE * BOARD_SIDE
    /\ board[BOARD_SIDE - 1][0] = 1
    /\ board[0][BOARD_SIDE - 1] = 0
    /\ last = Did("InitializeSimulation", "none", <<9>>, Alive(board))

\* what a step does to the two boards if it is a generation step: every interior
\* cell of workBoard gets the rule's value for the board as it was before the
\* step, and board then is workBoard, cell for cell
SimultaneousStep ==
    GenerationStep =>
        /\ \A rc \in InteriorCells :
              workBoard'[rc[1]][rc[2]] = RuleOfCode(board, rc[1], rc[2])
        /\ \A rc \in Cells \X Cells : board'[rc[1]][rc[2]] = workBoard'[rc[1]][rc[2]]

(***************************************************************************)
(* C14: a generation step is simultaneous: the new value of every interior *)
(* cell is computed from the board as it was before the step and from      *)
(* nothing written during the step (board is not changed until the rule    *)
(* has written every interior cell of workBoard), and after the commit     *)
(* board equals workBoard cell for cell.                                   *)
(***************************************************************************)
C14_StepIsSimultaneous ==
    [][SimultaneousStep]_vars

\* a generation step in which some cells were born and others survived: three
\* cells before it, four after it
C14_Witness ==
    /\ last.op = "UpdateBoard"
    /\ last.before = 3
    /\ Alive(board) = 4
    /\ board = workBoard

\* this step is the regular tick of a loop iteration
RegularTick == pc = "tick" /\ pc' = "poll"

\* how a step moves through the phases of a loop iteration
LoopOrder ==
    /\ pc = "tick" => RegularTick
    /\ pc = "poll" => pc' \in {"poll", "delay", "exit"}
    /\ pc = "delay" => pc' \in {"tick", "killed"}
    /\ (pc = "poll" /\ pc' = "delay") => (queue = <<>> /\ queue' = <<>>)
    /\ (pc = "poll" /\ pc' = "poll" /\ Len(queue') < Len(queue)) =>
          \E event \in MouseEvents \cup WatchEvents \cup SpeedEvents : Handled(event)
    /\ (pc # "tick" /\ (board' # board \/ screen' # screen)) => Clicked
    /\ (pc # "tick" /\ last'.op \in {"UpdateBoard", "paused"}) => last' = last

(***************************************************************************)
(* C15: a loop iteration runs tick, drain, delay in this order: the        *)
(* regular tick is the first step of the iteration and there is no other   *)
(* until the delay has passed, the drain goes on to the delay only when    *)
(* the queue is empty, so every event pending at the drain is handled      *)
(* before the delay, and no event is pending while the delay runs or when  *)
(* the next tick starts.                                                   *)
(***************************************************************************)
C15_TickDrainDelay ==
    /\ [][LoopOrder]_vars
    /\ [](pc \in {"tick", "delay"} => queue = <<>>)

\* an iteration whose drain handled a click has passed its delay while paused,
\* and the next tick is due
C15_Witness ==
    /\ pc = "tick"
    /\ last.op = "SDL_MOUSEBUTTONDOWN"
    /\ simulationPaused
    /\ screen.shown
    /\ queue = <<>>

\* which events change which colour, if right clicks alone change the background
\* and left clicks alone the colour of the cells
PaletteOwners ==
    /\ backgroundColor' # backgroundColor => Handled(MouseButtonDown("SDL_BUTTON_RIGHT"))
    /\ gameColors' # gameColors => Handled(MouseButtonDown("SDL_BUTTON_LEFT"))

(***************************************************************************)
(* C16: backgroundColor changes only when a right-button mouse-down is     *)
(* handled and gameColors only when a left-button mouse-down is handled;   *)
(* no other event, a key, a quit or the mouse-down of another button such  *)
(* as the middle one, changes either colour.                               *)
(***************************************************************************)
C16_OnlyLeftAndRightRecolour ==
    [][PaletteOwners]_vars

\* every cell of the first and last rows and columns of b is dead
DeadBoundary(b) == \A rc \in BoundaryCells : b[rc[1]][rc[2]] = 0

(***************************************************************************)
(* C17: from the first generation step on, every boundary cell of board is *)
(* dead, for ever: the step's commit copies the boundary of workBoard,     *)
(* which is zero from the start and never written, over whatever the       *)
(* seeding put there, so the rule sees live boundary cells in the first    *)
(* generation step only. (A frame has been presented iff a generation      *)
(* step has run.)                                                          *)
(***************************************************************************)
C17_BoundaryDeadAfterFirstStep ==
    /\ [][GenerationStep => DeadBoundary(board')]_vars
    /\ [](screen.shown => DeadBoundary(board))
    /\ [][(screen.shown /\ GenerationStep) => DeadBoundary(board)]_vars

\* the first generation step has run on a seeding with live boundary cells: as many
\* cells were alive as the interior has, and not all of them in the interior, for
\* fewer are alive now and the interior alone, all alive, would have stayed so
C17_Witness ==
    /\ last.op = "UpdateBoard"
    /\ last.before = Cardinality(InteriorCells)
    /\ Alive(board) \in 1..(last.before - 1)
    /\ BOARD_SIDE = 4
    /\ DeadBoundary(board)

\* what a step does if it handles a key-down event of the given key
KeyEffect(sym) ==
    Handled(KeyDown(sym)) =>
        /\ UNCHANGED <<seedIndex, board, workBoard, gameColors, backgroundColor, screen>>
        /\ sym = "SDLK_p" =>
              (/\ simulationPaused' # simulationPaused
               /\ UNCHANGED <<pc, exitCode, deltaTime, gFullscreen>>)
        /\ sym \in {"SDLK_MINUS", "SDLK_PLUS"} =>
              (/\ deltaTime' # deltaTime
               /\ UNCHANGED <<pc, exitCode, simulationPaused, gFullscreen>>)
        /\ sym = "SDLK_F11" =>
              (/\ gFullscreen' = 1 - gFullscreen
               /\ UNCHANGED <<pc, exitCode, deltaTime, simulationPaused>>)
        /\ sym = "SDLK_a" =>
              UNCHANGED <<pc, exitCode, deltaTime, simulationPaused, gFullscreen>>

(***************************************************************************)
(* C18: key events have disjoint effects and never touch the board: 'p'    *)
(* changes simulationPaused only, '+' and '-' deltaTime only, F11          *)
(* gFullscreen only, between 0 and 1, so that two F11 events restore it,   *)
(* and a key without a case of its own (SDLK_a) changes nothing; no key,   *)
(* escape and 'q' of C10 included, changes board, workBoard or a colour    *)
(* or presents a frame.                                                    *)
(***************************************************************************)
C18_KeysHaveDisjointEffects ==
    /\ [][\A event \in KeyEvents : KeyEffect(event.code)]_vars
    /\ [](gFullscreen \in {0, 1})

\* the second F11 has just restored the window, paused, at a changed speed, with
\* the frame and the board of the last tick
C18_Witness ==
    /\ last.op = "SDL_KEYDOWN"
    /\ last.code = "SDLK_F11"
    /\ gFullscreen = 0
    /\ simulationPaused
    /\ deltaTime = DEFAULT_DELTA_TIME + 1
    /\ screen.shown
    /\ Alive(board) = last.before

\* the cells whose squares a frame shows
FrameCells(frame) ==
    {<<frame.calls[i].args[1] \div PIXEL_SIZE, frame.calls[i].args[2] \div PIXEL_SIZE>> :
        i \in {j \in DOMAIN frame.calls : frame.calls[j].call = "SDL_RenderFillRect"}}

\* what a step does if it presents a frame: it is a generation step, and the frame
\* shows the generation that follows the board the step began with
PresentEffect ==
    (screen' # screen \/ (~screen.shown /\ pc = "tick")) =>
        /\ GenerationStep
        /\ screen'.shown
        /\ FrameCells(screen') = LiveCells(NextGeneration(board, workBoard))

(***************************************************************************)
(* C19: the seeded board, generation 0, is never presented: nothing is     *)
(* presented during the initialisation and the seeding, the first tick of  *)
(* the loop runs a generation step and presents its result, generation 1,  *)
(* and every frame presented is drawn in a generation step, after its      *)
(* commit, from the board the step produced.                               *)
(***************************************************************************)
C19_SeedIsNeverShown ==
    /\ [](screen.shown <=>
            \/ pc \in {"poll", "delay"}
            \/ /\ pc \in {"tick", "exit", "killed"}
               /\ last.op \notin {"InitializeSimulation", "Abort"})
    /\ [][PresentEffect]_vars
    /\ [](screen.shown => (FrameCells(screen) = LiveCells(board) /\ board = workBoard))

\* the first frame is on the screen and shows no cell, though the seeding made
\* as many cells alive as it may
C19_Witness ==
    /\ pc = "poll"
    /\ last.op = "UpdateBoard"
    /\ last.before = MaxSeedLive
    /\ screen.shown
    /\ FrameCells(screen) = {}
    /\ Alive(board) = 0

====
